---- MODULE Spec2Model ----
(***************************************************************************)
(* Model of Tools/MagicPanels/MagicPanels.py: the Magic Panels library of  *)
(* the Woodworking workbench.  The state is the host's active document     *)
(* (a collection of model objects) together with a record of what the last *)
(* public operation did (exception raised, help pop-up shown, selection    *)
(* queries, return value) and the GUI selection.  The 3D view orientation  *)
(* and the geometry of a picked face are inputs of the actions.            *)
(***************************************************************************)
EXTENDS Integers, Sequences, FiniteSets, TLC

\* ------------------------------------------------------------------------
\* Bounds of the model
\* ------------------------------------------------------------------------
\* Number of operations invoked in one behaviour.
MaxOps == 1
\* Number of edges (faces) of a shape.
MaxShape == 2

\* Sizes the objects of the initial document are drawn from.
SizeSet == {18, 300, 600}
\* Abstract rotations: 0 is Rotation(Vector(0, 0, 1), 0), 1 is another one.
Rots == {0, 1}
\* Positions offered to setPlacement and used for the initial document.
PosSet == {<<0, 0, 0>>, <<10, 20, 30>>}
\* Vertices the geometry kernel may report for a selected face.
VertexSet == {<<0, 0, 0>>, <<600, 300, 18>>}
\* Signs of the view direction and of the yaw/pitch/roll angles.
Signs == {-1, 0, 1}
ViewSet == [x : Signs, y : Signs, z : Signs, py : Signs, pz : Signs]

\* Vectors offered to getModelRotation.
Vectors == {<<1, 2, 3>>, <<5, 7, 11>>}
\* Bounding boxes <<XMin, YMin, ZMin, XMax, YMax, ZMax>>, in tenths of a
\* unit: 176 is 17.6.
BoundBoxes ==
  {<<0, 0, 0, 6000, 3000, 180>>,
   <<0, 0, 0, 6000, 3000, 176>>,
   <<0, 0, 5, 6000, 0, 15>>,
   <<-5, 0, 0, 6000, 0, 20>>}

Directions == {"XY", "YX", "XZ", "ZX", "YZ", "ZY"}
MoveTypes == {"Xp", "Xm", "Yp", "Ym", "Zp", "Zm"}
ResizeTypes == {"1", "2", "3", "4", "5", "6"}
SideTypes == {"1", "2", "3", "4"}
\* An argument value none of the operations knows.
BadType == "5x"

\* doc     the active document: object id -> object
\* nextId  the id the host gives to the next added object
\* sel     the GUI selection, in selection order (object ids)
\* faces   TRUE when a face is picked on every selected object
\* pre     the document before the last operation
\* last    what the last operation was and did
\* ops     number of operations invoked so far
VARIABLES doc, nextId, sel, faces, pre, last, ops
vars == <<doc, nextId, sel, faces, pre, last, ops>>

\* ------------------------------------------------------------------------
\* Host objects
\* ------------------------------------------------------------------------
Chars(s) ==
  CASE s = "XY_Plane" -> <<"X", "Y", "_", "P", "l", "a", "n", "e">>
    [] s = "XZ_Plane" -> <<"X", "Z", "_", "P", "l", "a", "n", "e">>
    [] s = "YZ_Plane" -> <<"Y", "Z", "_", "P", "l", "a", "n", "e">>
    [] s = "Cube" -> <<"C", "u", "b", "e">>
    [] OTHER -> <<>>

\* str.startswith of a two-letter plane name
startswith(label, p) ==
  /\ Len(label) >= 2
  /\ SubSeq(label, 1, 2) = p

Placement0 == [Base |-> <<0, 0, 0>>, Rotation |-> 0]

\* A freshly added object (host defaults: a Part::Box is 10 x 10 x 10).
NewObject(type) ==
  [Type |-> type,
   Length |-> IF type = "Part::Box" THEN 10 ELSE 0,
   Width |-> IF type = "Part::Box" THEN 10 ELSE 0,
   Height |-> IF type = "Part::Box" THEN 10 ELSE 0,
   Placement |-> Placement0,
   AttachmentOffset |-> Placement0,
   Profile |-> 0,
   SizeX |-> 0,
   SizeY |-> 0,
   Support |-> <<>>,
   RadiusHalves |-> 0,
   Linked |-> 0,
   Base |-> 0,
   Tool |-> 0,
   Label |-> <<>>]

addObject(d, id, type) == (id :> NewObject(type)) @@ d

removeObject(d, id) == [i \in (DOMAIN d) \ {id} |-> d[i]]

\* ActiveDocument.copyObject: a new object with the properties of d[id]
copyObject(d, n, id) == (n :> d[id]) @@ d

isDerivedFrom(o, type) == o.Type = type

\* ------------------------------------------------------------------------
\* Internal functions of the library
\* ------------------------------------------------------------------------
Min3(s) == IF s[1] <= s[2] /\ s[1] <= s[3] THEN s[1]
           ELSE IF s[2] <= s[3] THEN s[2] ELSE s[3]
Max3(s) == IF s[1] >= s[2] /\ s[1] >= s[3] THEN s[1]
           ELSE IF s[2] >= s[3] THEN s[2] ELSE s[3]
\* list.sort() of a list of three numbers
sort(s) == <<Min3(s), s[1] + s[2] + s[3] - Min3(s) - Max3(s), Max3(s)>>

\* the SizeX and SizeY constraints of the Pad's sketch are there
hasSizeConstraints(d, o) ==
  /\ o.Profile \in DOMAIN d
  /\ d[o.Profile].SizeX > 0
  /\ d[o.Profile].SizeY > 0

getSizesRaises(d, o) ==
  /\ isDerivedFrom(o, "PartDesign::Pad")
  /\ ~hasSizeConstraints(d, o)

getSizes(d, o) ==
  CASE isDerivedFrom(o, "Part::Box") -> <<o.Length, o.Width, o.Height>>
    [] isDerivedFrom(o, "PartDesign::Pad") ->
         <<d[o.Profile].SizeX, d[o.Profile].SizeY, o.Length>>
    [] isDerivedFrom(o, "Part::Cylinder") -> <<1, 1, 1>>
    [] isDerivedFrom(o, "Part::Cone") -> <<1, 1, 1>>
    [] isDerivedFrom(o, "App::FeaturePython") -> <<o.Width, o.Height, o.Length>>
    [] OTHER -> <<100, 100, 100>>

\* getDirectionBox with "Width <= Length" of the XY test written as "<"
getDirectionBoxStrict(o) ==
  LET L == o.Length
      W == o.Width
      H == o.Height
  IN  IF H < W /\ H < L /\ W < L THEN "XY"
      ELSE IF H < W /\ H < L /\ W > L THEN "YX"
      ELSE IF W < H /\ W < L /\ H <= L THEN "XZ"
      ELSE IF W < H /\ W < L /\ H > L THEN "ZX"
      ELSE IF L < H /\ L < W /\ H <= W THEN "YZ"
      ELSE IF L < H /\ L < W /\ H > W THEN "ZY"
      ELSE IF H = W /\ L >= H THEN "XY"
      ELSE IF L = H /\ W > H THEN "YX"
      ELSE IF L = W /\ H > W THEN "ZX"
      ELSE "None"

\* "None" stands for falling off the end of the function.
getDirectionBox(o) ==
  LET L == o.Length
      W == o.Width
      H == o.Height
  IN  IF H < W /\ H < L /\ W <= L THEN "XY"
      ELSE IF H < W /\ H < L /\ W > L THEN "YX"
      ELSE IF W < H /\ W < L /\ H <= L THEN "XZ"
      ELSE IF W < H /\ W < L /\ H > L THEN "ZX"
      ELSE IF L < H /\ L < W /\ H <= W THEN "YZ"
      ELSE IF L < H /\ L < W /\ H > W THEN "ZY"
      ELSE IF H = W /\ L >= H THEN "XY"
      ELSE IF L = H /\ W > H THEN "YX"
      ELSE IF L = W /\ H > W THEN "ZX"
      ELSE "None"

getDirectionPad(d, o) ==
  LET ref == d[o.Profile].Support
      s == getSizes(d, o)
      sX == s[1]
      sY == s[2]
  IN  IF startswith(ref, <<"X", "Y">>) THEN (IF sX >= sY THEN "XY" ELSE "YX")
      ELSE IF startswith(ref, <<"X", "Z">>) THEN (IF sX >= sY THEN "XZ" ELSE "ZX")
      ELSE IF startswith(ref, <<"Y", "Z">>) THEN (IF sX >= sY THEN "YZ" ELSE "ZY")
      ELSE "None"

\* an object without a Profile, or a Pad without SizeX/SizeY, makes it raise
getDirectionRaises(d, o) ==
  /\ ~isDerivedFrom(o, "Part::Box")
  /\ \/ o.Profile \notin DOMAIN d
     \/ getSizesRaises(d, o)

getDirection(d, o) ==
  IF isDerivedFrom(o, "Part::Box") THEN getDirectionBox(o) ELSE getDirectionPad(d, o)

sizesToCubePanelRaises(d, o, iType) ==
  \/ isDerivedFrom(o, "PartDesign::Pad") /\ ~hasSizeConstraints(d, o)
  \/ /\ ~isDerivedFrom(o, "Part::Box")
     /\ ~isDerivedFrom(o, "PartDesign::Pad")
     /\ ~isDerivedFrom(o, "App::FeaturePython")
  \/ iType \notin Directions

\* sizesToCubePanel with the sizes of "ZX" written as those of "XZ"
sizesToCubePanelSwapped(d, o, iType) ==
  LET raw == CASE isDerivedFrom(o, "Part::Box") -> <<o.Length, o.Width, o.Height>>
               [] isDerivedFrom(o, "PartDesign::Pad") ->
                    <<o.Length, d[o.Profile].SizeX, d[o.Profile].SizeY>>
               [] OTHER -> <<o.Length, o.Width, o.Height>>
      sizes == sort(raw)
  IN  CASE iType = "XY" -> <<sizes[3], sizes[2], sizes[1]>>
        [] iType = "YX" -> <<sizes[2], sizes[3], sizes[1]>>
        [] iType = "XZ" -> <<sizes[3], sizes[1], sizes[2]>>
        [] iType = "ZX" -> <<sizes[3], sizes[1], sizes[2]>>
        [] iType = "YZ" -> <<sizes[1], sizes[3], sizes[2]>>
        [] iType = "ZY" -> <<sizes[1], sizes[2], sizes[3]>>

sizesToCubePanel(d, o, iType) ==
  LET raw == CASE isDerivedFrom(o, "Part::Box") -> <<o.Length, o.Width, o.Height>>
               [] isDerivedFrom(o, "PartDesign::Pad") ->
                    <<o.Length, d[o.Profile].SizeX, d[o.Profile].SizeY>>
               [] OTHER -> <<o.Length, o.Width, o.Height>>
      sizes == sort(raw)
  IN  CASE iType = "XY" -> <<sizes[3], sizes[2], sizes[1]>>
        [] iType = "YX" -> <<sizes[2], sizes[3], sizes[1]>>
        [] iType = "XZ" -> <<sizes[3], sizes[1], sizes[2]>>
        [] iType = "ZX" -> <<sizes[2], sizes[1], sizes[3]>>
        [] iType = "YZ" -> <<sizes[1], sizes[3], sizes[2]>>
        [] iType = "ZY" -> <<sizes[1], sizes[2], sizes[3]>>

\* ------------------------------------------------------------------------
\* Edges and faces by bounding box
\* ------------------------------------------------------------------------
\* The text of a number: sign, integer digits, first decimal digit.
\* str of an int: no decimals
IntText(n) == [neg |-> n < 0, int |-> IF n < 0 THEN -n ELSE n, frac |-> 0]

\* the host's text of a float given in tenths: 180 reads "18", 176 "17.6"
FloatText(x) ==
  LET a == IF x < 0 THEN -x ELSE x
  IN  [neg |-> x < 0, int |-> a \div 10, frac |-> a % 10]

\* int(round(x, 0)) of a float given in tenths: halves go to the even side
round(x) ==
  LET q == x \div 10
      r == x % 10
  IN  IF r < 5 THEN q
      ELSE IF r > 5 THEN q + 1
      ELSE IF q % 2 = 0 THEN q ELSE q + 1

\* the six numbers of the text "BoundBox (..., ..., ..., ..., ..., ...)"
normalizeBoundBox(iBoundBox) == [i \in 1..6 |-> IntText(round(iBoundBox[i]))]

\* str(iBoundBox) as the host writes it
strBoundBox(iBoundBox) == [i \in 1..6 |-> FloatText(iBoundBox[i])]

\* Edges: the bounding boxes of iObj.Shape.Edges, in order
getEdgeIndexByKey(Edges, iBoundBox) ==
  LET hits == {i \in 1..Len(Edges) :
                 normalizeBoundBox(Edges[i]) = normalizeBoundBox(iBoundBox)}
  IN  IF hits = {} THEN -1
      ELSE CHOOSE i \in hits : \A j \in hits : i <= j

\* Faces: the bounding boxes of iObj.Shape.Faces, in order
getFaceIndexByKey(Faces, iBoundBox) ==
  LET hits == {i \in 1..Len(Faces) :
                 normalizeBoundBox(Faces[i]) = strBoundBox(iBoundBox)}
  IN  IF hits = {} THEN -1
      ELSE CHOOSE i \in hits : \A j \in hits : i <= j

\* ------------------------------------------------------------------------
\* Placement
\* ------------------------------------------------------------------------
\* a Pad whose Profile is gone has nothing to read or write the offset of
placementRaises(d, id) ==
  /\ isDerivedFrom(d[id], "PartDesign::Pad")
  /\ d[id].Profile \notin DOMAIN d

getPlacement(d, id) ==
  LET o == d[id]
      ref == IF isDerivedFrom(o, "PartDesign::Pad") THEN d[o.Profile].AttachmentOffset
             ELSE IF isDerivedFrom(o, "Sketcher::SketchObject") THEN o.AttachmentOffset
             ELSE o.Placement
  IN  <<ref.Base[1], ref.Base[2], ref.Base[3], ref.Rotation>>

setPlacement(d, id, iX, iY, iZ, iR) ==
  LET o == d[id]
      p == [Base |-> <<iX, iY, iZ>>, Rotation |-> iR]
  IN  IF isDerivedFrom(o, "PartDesign::Pad")
      THEN [d EXCEPT ![o.Profile].AttachmentOffset = p]
      ELSE IF isDerivedFrom(o, "Sketcher::SketchObject")
      THEN [d EXCEPT ![id].Placement = p]
      ELSE [d EXCEPT ![id].Placement = p]

resetPlacement(d, id) ==
  LET o == d[id]
      p == [Base |-> <<0, 0, 0>>, Rotation |-> 0]
  IN  IF isDerivedFrom(o, "PartDesign::Pad")
      THEN [d EXCEPT ![o.Profile].AttachmentOffset = p]
      ELSE IF isDerivedFrom(o, "Sketcher::SketchObject")
      THEN [d EXCEPT ![id].Placement = p]
      ELSE [d EXCEPT ![id].Placement = p]

\* ------------------------------------------------------------------------
\* View orientation
\* ------------------------------------------------------------------------
\* the view of the base state (Z up, X rotate 0), which no branch tests for
BaseView == [x |-> -1, y |-> 1, z |-> -1, py |-> -1, pz |-> 1]

\* RotationTable with the last branch giving Z = iX in place of Z = -iX
RotationTableLastMirrored ==
  << <<-1, -1, -1, -1,  1,   -2,  1,  3>>,
     << 1, -1, -1, -1,  1,   -1, -2,  3>>,
     << 1,  1, -1, -1,  1,    2, -1,  3>>,
     <<-1, -1,  1,  1, -1,    1, -2, -3>>,
     <<-1,  1,  1,  1, -1,   -2, -1, -3>>,
     << 1,  1,  1,  1, -1,   -1,  2, -3>>,
     << 1, -1,  1,  1, -1,    2,  1, -3>>,
     <<-1,  1,  1,  1,  1,    3,  2, -1>>,
     <<-1, -1,  1, -1,  1,    3,  1,  2>>,
     <<-1, -1, -1, -1, -1,    3, -2,  1>>,
     <<-1,  1, -1,  1, -1,    3, -1, -2>>,
     << 1,  1, -1, -1, -1,   -3,  2,  1>>,
     << 1, -1, -1,  1, -1,   -3,  1, -2>>,
     << 1, -1,  1,  1,  1,   -3, -2, -1>>,
     << 1,  1,  1, -1,  1,   -3, -1,  2>>,
     <<-1, -1, -1,  1, -1,    1,  3, -2>>,
     <<-1, -1,  1,  1,  1,   -2,  3, -1>>,
     << 1, -1,  1, -1,  1,   -1,  3,  2>>,
     << 1, -1, -1, -1, -1,    2,  3,  1>>,
     <<-1,  1,  1, -1,  1,    1, -3,  2>>,
     <<-1,  1, -1, -1, -1,   -2, -3,  1>>,
     << 1,  1, -1,  1, -1,   -1, -3, -2>>,
     << 1,  1,  1,  1,  1,    2, -3,  1>> >>

\* One row per explicit branch of getModelRotation, in source order:
\* the required signs of x, y, z, py, pz, then the signed index (1 = iX,
\* 2 = iY, 3 = iZ) assigned to X, Y and Z.
RotationTable ==
  << <<-1, -1, -1, -1,  1,   -2,  1,  3>>,
     << 1, -1, -1, -1,  1,   -1, -2,  3>>,
     << 1,  1, -1, -1,  1,    2, -1,  3>>,
     <<-1, -1,  1,  1, -1,    1, -2, -3>>,
     <<-1,  1,  1,  1, -1,   -2, -1, -3>>,
     << 1,  1,  1,  1, -1,   -1,  2, -3>>,
     << 1, -1,  1,  1, -1,    2,  1, -3>>,
     <<-1,  1,  1,  1,  1,    3,  2, -1>>,
     <<-1, -1,  1, -1,  1,    3,  1,  2>>,
     <<-1, -1, -1, -1, -1,    3, -2,  1>>,
     <<-1,  1, -1,  1, -1,    3, -1, -2>>,
     << 1,  1, -1, -1, -1,   -3,  2,  1>>,
     << 1, -1, -1,  1, -1,   -3,  1, -2>>,
     << 1, -1,  1,  1,  1,   -3, -2, -1>>,
     << 1,  1,  1, -1,  1,   -3, -1,  2>>,
     <<-1, -1, -1,  1, -1,    1,  3, -2>>,
     <<-1, -1,  1,  1,  1,   -2,  3, -1>>,
     << 1, -1,  1, -1,  1,   -1,  3,  2>>,
     << 1, -1, -1, -1, -1,    2,  3,  1>>,
     <<-1,  1,  1, -1,  1,    1, -3,  2>>,
     <<-1,  1, -1, -1, -1,   -2, -3,  1>>,
     << 1,  1, -1,  1, -1,   -1, -3, -2>>,
     << 1,  1,  1,  1,  1,    2, -3, -1>> >>

BranchMatches(row, view) ==
  /\ view.x = row[1]
  /\ view.y = row[2]
  /\ view.z = row[3]
  /\ view.py = row[4]
  /\ view.pz = row[5]

\* the value a signed index picks from the vector v
Pick(k, v) == IF k > 0 THEN v[k] ELSE -v[-k]

\* The signed indexes getModelRotation assigns to X, Y and Z under a view:
\* the axis inversions of the base state, overwritten by every matching
\* branch in source order (the last match stands).
viewTransform(view) ==
  LET base == << IF view.x > 0 THEN -1 ELSE 1,
                 IF view.y < 0 THEN -2 ELSE 2,
                 IF view.z > 0 THEN -3 ELSE 3 >>
      hits == {i \in 1..Len(RotationTable) : BranchMatches(RotationTable[i], view)}
  IN  IF hits = {} THEN base
      ELSE LET i == CHOOSE j \in hits : \A k \in hits : k <= j
           IN  <<RotationTable[i][6], RotationTable[i][7], RotationTable[i][8]>>

getModelRotation(view, iX, iY, iZ) ==
  LET v == <<iX, iY, iZ>>
      t == viewTransform(view)
  IN  <<Pick(t[1], v), Pick(t[2], v), Pick(t[3], v)>>

\* One view for every transformation getModelRotation can apply: the
\* operations depend on the view through viewTransform only.
ViewTransforms == {viewTransform(view) : view \in ViewSet}
Views == {CHOOSE view \in ViewSet : viewTransform(view) = t : t \in ViewTransforms}

\* a Pad whose direction is not recognized makes convertPosition return None
convertPositionRaises(d, o) ==
  /\ isDerivedFrom(o, "PartDesign::Pad")
  /\ \/ getDirectionRaises(d, o)
     \/ getDirection(d, o) = "None"

convertPosition(d, o, iX, iY, iZ) ==
  IF isDerivedFrom(o, "PartDesign::Pad")
  THEN LET direction == getDirection(d, o)
       IN  IF direction \in {"XY", "YX"} THEN <<iX, iY, iZ>>
           ELSE IF direction \in {"XZ", "ZX"} THEN <<iX, iZ, -iY>>
           ELSE <<iY, iZ, iX>>
  ELSE <<iX, iY, iZ>>

\* ------------------------------------------------------------------------
\* makePad
\* ------------------------------------------------------------------------
\* Labels of body.Origin.OriginFeatures[3], [4] and [5].
OriginFeatureLabel(direction) ==
  IF direction \in {"XY", "YX"} THEN Chars("XY_Plane")
  ELSE IF direction \in {"XZ", "ZX"} THEN Chars("XZ_Plane")
  ELSE Chars("YZ_Plane")

\* getSizes or getDirection raise before anything is added
makePadRaisesEarly(d, id) ==
  \/ getSizesRaises(d, d[id])
  \/ getDirectionRaises(d, d[id])
  \/ placementRaises(d, id)

\* with no direction, s is unbound when the SizeX datum is set:
\* the Part, the Body and the Sketch are already there
makePadRaisesLate(d, id) == getDirection(d, d[id]) \notin Directions

\* makePadSizes without the swap for the directions YX, ZX and ZY
makePadSizesUnswapped(sizes, direction) == <<sizes[3], sizes[2], sizes[1]>>

\* SizeX, SizeY and the Pad's Length
makePadSizes(sizes, direction) ==
  IF direction \in {"XY", "XZ", "YZ"}
  THEN <<sizes[3], sizes[2], sizes[1]>>
  ELSE <<sizes[2], sizes[3], sizes[1]>>

\* position of the sketch's AttachmentOffset
makePadPosition(sizes, direction, X, Y, Z) ==
  IF direction \in {"XY", "YX"} THEN <<X, Y, Z>>
  ELSE IF direction \in {"XZ", "ZX"} THEN <<X, Z, -(Y + sizes[1])>>
  ELSE <<Y, Z, X>>

\* the document after makePad(iObj, iPadLabel): part n, body n+1, sketch n+2,
\* pad n+3
makePad(d, n, id, iPadLabel) ==
  LET o == d[id]
      sizes == sort(getSizes(d, o))
      direction == getDirection(d, o)
      s == makePadSizes(sizes, direction)
      pl == getPlacement(d, id)
      pos == makePadPosition(sizes, direction, pl[1], pl[2], pl[3])
      d0 == addObject(d, n, "App::Part")
      d1 == [d0 EXCEPT ![n].Label = <<"Part, ", iPadLabel>>]
      b1 == addObject(d1, n + 1, "PartDesign::Body")
      d2 == [b1 EXCEPT ![n + 1].Label = <<"Body, ", iPadLabel>>]
      s1 == addObject(d2, n + 2, "Sketcher::SketchObject")
      d3 == [s1 EXCEPT ![n + 2].Label = <<"Pattern, ", iPadLabel>>]
  IN  IF makePadRaisesLate(d, id) THEN d3
      ELSE LET d4 == [d3 EXCEPT ![n + 2].Support = OriginFeatureLabel(direction),
                                ![n + 2].SizeX = s[1],
                                ![n + 2].SizeY = s[2],
                                ![n + 2].AttachmentOffset =
                                    [Base |-> pos, Rotation |-> pl[4]]]
               d5 == addObject(d4, n + 3, "PartDesign::Pad")
           IN  [d5 EXCEPT ![n + 3].Label = <<iPadLabel>>,
                          ![n + 3].Profile = n + 2,
                          ![n + 3].Length = s[3]]

\* ------------------------------------------------------------------------
\* Outcome of the try block of a public operation
\* ------------------------------------------------------------------------
Raise(d, n, reads) ==
  [doc |-> d, nextId |-> n, raised |-> TRUE, reads |-> reads, ret |-> <<>>]

Done(d, n, reads, ret) ==
  [doc |-> d, nextId |-> n, raised |-> FALSE, reads |-> reads, ret |-> ret]

setBox(d, id, L, W, H) ==
  [d EXCEPT ![id].Length = L, ![id].Width = W, ![id].Height = H]

\* Thickness, Chamfer, Cut and Hole objects are never in the selection
\* (the operations that create them leave the selection empty); every
\* other object is its own reference.
getReference(d, id) == id

\* panelDefaultSizes with the sizes of "YX" written as those of "XY"
panelDefaultSizesSwapped(iType) ==
  CASE iType = "XY" -> <<600, 300, 18>>
    [] iType = "YX" -> <<600, 300, 18>>
    [] iType = "XZ" -> <<600, 18, 300>>
    [] iType = "ZX" -> <<300, 18, 600>>
    [] iType = "YZ" -> <<18, 600, 300>>
    [] iType = "ZY" -> <<18, 300, 600>>
    [] OTHER -> <<10, 10, 10>>

panelDefaultSizes(iType) ==
  CASE iType = "XY" -> <<600, 300, 18>>
    [] iType = "YX" -> <<300, 600, 18>>
    [] iType = "XZ" -> <<600, 18, 300>>
    [] iType = "ZX" -> <<300, 18, 600>>
    [] iType = "YZ" -> <<18, 600, 300>>
    [] iType = "ZY" -> <<18, 300, 600>>
    [] OTHER -> <<10, 10, 10>>

panelDefaultBody(d, n, iType) ==
  LET z == panelDefaultSizes(iType)
  IN  Done(setBox(addObject(d, n, "Part::Box"), n, z[1], z[2], z[3]), n + 1, 0, <<>>)

\* panelCopyBody asking the host for the selection a second time
panelCopyBodyReadsTwice(d, n, s, iType) ==
  IF Len(s) = 0 THEN Raise(d, n, 1)
  ELSE LET g == getReference(d, s[1])
       IN  IF sizesToCubePanelRaises(d, d[g], iType) THEN Raise(d, n, 2)
           ELSE LET z == sizesToCubePanel(d, d[g], iType)
                IN  Done(setBox(addObject(d, n, "Part::Box"), n, z[1], z[2], z[3]),
                         n + 1, 2, <<>>)

panelCopyBody(d, n, s, iType) ==
  IF Len(s) = 0 THEN Raise(d, n, 1)
  ELSE LET g == getReference(d, s[1])
       IN  IF sizesToCubePanelRaises(d, d[g], iType) THEN Raise(d, n, 1)
           ELSE LET z == sizesToCubePanel(d, d[g], iType)
                IN  Done(setBox(addObject(d, n, "Part::Box"), n, z[1], z[2], z[3]),
                         n + 1, 1, <<>>)

\* the step of panelMove before the conversions
panelMoveStep(sizes, iType) ==
  CASE iType = "Xp" -> <<sizes[1], 0, 0>>
    [] iType = "Xm" -> <<-sizes[1], 0, 0>>
    [] iType = "Yp" -> <<0, sizes[1], 0>>
    [] iType = "Ym" -> <<0, -sizes[1], 0>>
    [] iType = "Zp" -> <<0, 0, sizes[1]>>
    [] iType = "Zm" -> <<0, 0, -sizes[1]>>
    [] OTHER -> <<0, 0, 0>>

panelMoveBody(d, n, s, iType, view) ==
  IF Len(s) = 0 THEN Raise(d, n, 1)
  ELSE LET g == getReference(d, s[1])
           o == d[g]
       IN  IF getSizesRaises(d, o) \/ convertPositionRaises(d, o) \/ placementRaises(d, g)
           THEN Raise(d, n, 1)
           ELSE LET sizes == sort(getSizes(d, o))
                    st == panelMoveStep(sizes, iType)
                    c == convertPosition(d, o, st[1], st[2], st[3])
                    m == getModelRotation(view, c[1], c[2], c[3])
                    p == getPlacement(d, g)
                IN  Done(setPlacement(d, g, p[1] + m[1], p[2] + m[2], p[3] + m[3], p[4]),
                         n, 1, <<>>)

\* panelResize of a Part::Box: L, W, H are read once, before any change
panelResizeBox(o, sizes, thick, iType) ==
  LET L == o.Length
      W == o.Width
      H == o.Height
      grow(v, ref, step) == IF v = ref THEN v + step ELSE v
      shrink(v, ref, step) == IF v = ref /\ v - step > 0 THEN v - step ELSE v
  IN  CASE iType = "1" ->
             [o EXCEPT !.Length = grow(L, sizes[3], thick),
                       !.Width = grow(W, sizes[3], thick),
                       !.Height = grow(H, sizes[3], thick)]
        [] iType = "2" ->
             [o EXCEPT !.Length = shrink(L, sizes[3], thick),
                       !.Width = shrink(W, sizes[3], thick),
                       !.Height = shrink(H, sizes[3], thick)]
        [] iType = "3" ->
             [o EXCEPT !.Length = grow(L, sizes[2], thick),
                       !.Width = grow(W, sizes[2], thick),
                       !.Height = grow(H, sizes[2], thick)]
        [] iType = "4" ->
             [o EXCEPT !.Length = shrink(L, sizes[2], thick),
                       !.Width = shrink(W, sizes[2], thick),
                       !.Height = shrink(H, sizes[2], thick)]
        [] iType = "5" ->
             [o EXCEPT !.Length = grow(L, sizes[1], 1),
                       !.Width = grow(W, sizes[1], 1),
                       !.Height = grow(H, sizes[1], 1)]
        [] iType = "6" ->
             [o EXCEPT !.Length = shrink(L, sizes[1], 1),
                       !.Width = shrink(W, sizes[1], 1),
                       !.Height = shrink(H, sizes[1], 1)]
        [] OTHER -> o

\* panelResize of a Part::Cylinder; the radius is kept in halves of a unit
\* because the steps "5" and "6" are thick / 2
panelResizeCylinder(o, thick, iType) ==
  LET R2 == o.RadiusHalves
      H == o.Height
  IN  CASE iType = "1" -> [o EXCEPT !.Height = H + thick]
        [] iType = "2" -> IF H - thick > 0 THEN [o EXCEPT !.Height = H - thick] ELSE o
        [] iType = "3" -> [o EXCEPT !.RadiusHalves = R2 + 2 * thick]
        [] iType = "4" -> IF R2 - 2 * thick > 0
                          THEN [o EXCEPT !.RadiusHalves = R2 - 2 * thick] ELSE o
        [] iType = "5" -> [o EXCEPT !.RadiusHalves = R2 + thick]
        [] iType = "6" -> IF R2 - thick > 0
                          THEN [o EXCEPT !.RadiusHalves = R2 - thick] ELSE o
        [] OTHER -> o

\* panelResize of a PartDesign::Pad: datum 9 is SizeX, datum 10 is SizeY
panelResizePad(d, g, sizes, thick, iType) ==
  LET o == d[g]
      k == o.Profile
      direction == getDirection(d, o)
      first == direction \in {"XY", "XZ", "YZ"}
  IN  CASE iType = "1" ->
             IF first THEN [d EXCEPT ![k].SizeX = sizes[3] + thick]
             ELSE [d EXCEPT ![k].SizeY = sizes[3] + thick]
        [] iType = "2" /\ sizes[3] - thick > 0 ->
             IF first THEN [d EXCEPT ![k].SizeX = sizes[3] - thick]
             ELSE [d EXCEPT ![k].SizeY = sizes[3] - thick]
        [] iType = "3" ->
             IF first THEN [d EXCEPT ![k].SizeY = sizes[2] + thick]
             ELSE [d EXCEPT ![k].SizeX = sizes[2] + thick]
        [] iType = "4" /\ sizes[2] - thick > 0 ->
             IF first THEN [d EXCEPT ![k].SizeY = sizes[2] - thick]
             ELSE [d EXCEPT ![k].SizeX = sizes[2] - thick]
        [] iType = "5" -> [d EXCEPT ![g].Length = o.Length + 1]
        [] iType = "6" /\ o.Length - 1 > 0 -> [d EXCEPT ![g].Length = o.Length - 1]
        [] OTHER -> d

panelResizeBody(d, n, s, iType) ==
  IF Len(s) = 0 THEN Raise(d, n, 1)
  ELSE LET g == getReference(d, s[1])
           o == d[g]
       IN  IF getSizesRaises(d, o) THEN Raise(d, n, 1)
           ELSE LET sizes == sort(getSizes(d, o))
                    thick == sizes[1]
                IN  IF isDerivedFrom(o, "Part::Cylinder")
                    THEN Done([d EXCEPT ![g] = panelResizeCylinder(o, thick, iType)],
                              n, 1, <<>>)
                    ELSE IF isDerivedFrom(o, "Part::Box")
                    THEN Done([d EXCEPT ![g] = panelResizeBox(o, sizes, thick, iType)],
                              n, 1, <<>>)
                    ELSE IF isDerivedFrom(o, "PartDesign::Pad")
                    THEN Done(panelResizePad(d, g, sizes, thick, iType), n, 1, <<>>)
                    ELSE Done(d, n, 1, <<>>)

placeBox(d, id, L, W, H, x, y, z) ==
  [d EXCEPT ![id].Length = L, ![id].Width = W, ![id].Height = H,
            ![id].Placement = [Base |-> <<x, y, z>>, Rotation |-> 0]]

\* v is the vertex the geometry kernel gives for the picked face
panelSideBody(d, n, s, f, iType, v) ==
  IF Len(s) = 0 THEN Raise(d, n, 1)
  ELSE IF ~f THEN Raise(d, n, 2)
  ELSE LET g == getReference(d, s[1])
       IN  IF sizesToCubePanelRaises(d, d[g], "ZY") \/ iType \notin SideTypes
           THEN Raise(d, n, 2)
           ELSE LET z == sizesToCubePanel(d, d[g], "ZY")
                    x1 == IF iType \in {"1", "4"} THEN v[1] - z[1] ELSE v[1]
                    z1 == IF iType \in {"2", "4"} THEN v[3] + z[1] ELSE v[3]
                IN  Done(placeBox(addObject(d, n, "Part::Box"), n,
                                  z[1], z[2], z[3], x1, v[2], z1),
                         n + 1, 2, <<>>)

abs(a) == IF a < 0 THEN -a ELSE a

\* v1, v2 are the vertices the kernel gives for the two picked faces
panelBetweenBody(d, n, s, f, iType, v1, v2) ==
  IF Len(s) = 0 THEN Raise(d, n, 1)
  ELSE IF ~f THEN Raise(d, n, 2)
  ELSE IF Len(s) < 2 THEN Raise(d, n, 3)
  ELSE LET g == getReference(d, s[1])
           x == abs(v2[1] - v1[1])
           y == abs(v2[2] - v1[2])
           z == abs(v2[3] - v1[3])
           d1 == addObject(d, n, "Part::Box")
       IN  IF sizesToCubePanelRaises(d, d[g], iType) THEN Raise(d1, n + 1, 3)
           ELSE LET c == sizesToCubePanel(d, d[g], iType)
                    d2 == setBox(d1, n, c[1], c[2], c[3])
                IN  IF ~isDerivedFrom(d[g], "Part::Box") THEN Raise(d2, n + 1, 3)
                    ELSE Done(placeBox(d2, n,
                                       IF x > 0 THEN x ELSE c[1],
                                       IF y > 0 THEN y ELSE c[2],
                                       IF z > 0 THEN z ELSE c[3],
                                       v1[1], v1[2], v1[3] + d[g].Height - c[3]),
                              n + 1, 3, <<>>)

\* the objects after the first are put at the face one by one; the k-th
\* failing leaves the earlier ones moved
RECURSIVE panelMove2FaceLoop(_, _, _, _, _, _)
panelMove2FaceLoop(d, n, s, i, plane, v1) ==
  IF i > Len(s) THEN Done(d, n, 3, <<>>)
  ELSE LET obj == getReference(d, s[i])
       IN  IF placementRaises(d, obj) \/ plane \notin {"XY", "XZ", "YZ"}
           THEN Raise(d, n, 3)
           ELSE LET p == getPlacement(d, obj)
                    X == IF plane = "YZ" THEN v1[1] ELSE p[1]
                    Y == IF plane = "XZ" THEN v1[2] ELSE p[2]
                    Z == IF plane = "XY" THEN v1[3] ELSE p[3]
                IN  panelMove2FaceLoop(setPlacement(d, obj, X, Y, Z, p[4]),
                                       n, s, i + 1, plane, v1)

\* plane and v1 are what getFacePlane and getFaceVertices give for the face
panelMove2FaceBody(d, n, s, f, plane, v1) ==
  IF Len(s) < 2 THEN Raise(d, n, 1)
  ELSE IF ~f THEN Raise(d, n, 3)
  ELSE panelMove2FaceLoop(d, n, s, 2, plane, v1)

\* panel2padBody removing the first object of the document instead of
\* the selected one
panel2padBodyRemovesFirst(d, n, s) ==
  IF Len(s) = 0 THEN Raise(d, n, 1)
  ELSE LET gObj == s[1]
           first == CHOOSE i \in DOMAIN d : \A j \in DOMAIN d : i <= j
       IN  IF makePadRaisesEarly(d, gObj) THEN Raise(d, n, 1)
           ELSE IF makePadRaisesLate(d, gObj) THEN Raise(makePad(d, n, gObj, "panel2pad"), n + 3, 1)
           ELSE Done(removeObject(makePad(d, n, gObj, "panel2pad"), first), n + 4, 1,
                     <<n, n + 1, n + 2, n + 3>>)

panel2padBody(d, n, s) ==
  IF Len(s) = 0 THEN Raise(d, n, 1)
  ELSE LET gObj == s[1]
       IN  IF makePadRaisesEarly(d, gObj) THEN Raise(d, n, 1)
           ELSE IF makePadRaisesLate(d, gObj) THEN Raise(makePad(d, n, gObj, "panel2pad"), n + 3, 1)
           ELSE Done(removeObject(makePad(d, n, gObj, "panel2pad"), gObj), n + 4, 1,
                     <<n, n + 1, n + 2, n + 3>>)

RECURSIVE panel2linkLoop(_, _, _, _, _)
panel2linkLoop(d, n, s, i, links) ==
  IF i > Len(s) THEN Done(d, n, 1, links)
  ELSE LET o == s[i]
           d1 == [addObject(d, n, "App::Link") EXCEPT
                    ![n].Linked = s[1],
                    ![n].Label = <<"Link, ">> \o d[o].Label]
       IN  IF placementRaises(d, o) THEN Raise(d1, n + 1, 1)
           ELSE LET p == getPlacement(d1, o)
                    d2 == setPlacement(d1, n, p[1], p[2], p[3], p[4])
                IN  panel2linkLoop(removeObject(d2, o), n + 1, s, i + 1,
                                   Append(links, n))

panel2linkBody(d, n, s) ==
  IF Len(s) < 2 THEN Raise(d, n, 1)
  ELSE panel2linkLoop(d, n, s, 2, <<>>)

\* ------------------------------------------------------------------------
\* panel2profile
\* ------------------------------------------------------------------------
\* One pass of the loop of panel2profile for the i-th selected object:
\* part n, body n+1, sketch n+2, pad n+3, profile n+4.
RECURSIVE panel2profileLoop(_, _, _, _, _)
panel2profileLoop(d, n, s, i, profiles) ==
  IF i > Len(s) THEN Done(d, n, 1, profiles)
  ELSE LET gObj == s[i]
       IN  IF getSizesRaises(d, d[gObj]) THEN Raise(d, n, 1)
           ELSE IF sort(getSizes(d, d[gObj]))[1] # sort(getSizes(d, d[gObj]))[2]
           THEN Raise(d, n, 1)
           ELSE IF makePadRaisesEarly(d, gObj) THEN Raise(d, n, 1)
           ELSE IF makePadRaisesLate(d, gObj)
           THEN Raise(makePad(d, n, gObj, "Construction"), n + 3, 1)
           ELSE LET d1 == removeObject(makePad(d, n, gObj, "Construction"), gObj)
                    d2 == [addObject(d1, n + 4, "PartDesign::Thickness") EXCEPT
                             ![n + 4].Base = n + 3]
                IN  panel2profileLoop(d2, n + 5, s, i + 1, Append(profiles, n + 4))

\* panel2profileBody undoing what it did when an object fails
panel2profileBodyRollsBack(d, n, s) ==
  IF Len(s) = 0 THEN Raise(d, n, 1)
  ELSE IF panel2profileLoop(d, n, s, 1, <<>>).raised THEN Raise(d, n, 1)
  ELSE panel2profileLoop(d, n, s, 1, <<>>)

panel2profileBody(d, n, s) ==
  IF Len(s) = 0 THEN Raise(d, n, 1)
  ELSE panel2profileLoop(d, n, s, 1, <<>>)

\* ------------------------------------------------------------------------
\* makeCuts and magicCut
\* ------------------------------------------------------------------------
\* makeCutsLoop cutting with the selected object itself instead of a copy
RECURSIVE makeCutsLoopToolIsOriginal(_, _, _, _, _, _, _)
makeCutsLoopToolIsOriginal(d, n, iObjects, i, base, baseLabel, cuts) ==
  IF i > Len(iObjects) THEN [doc |-> d, nextId |-> n, cuts |-> cuts]
  ELSE LET o == iObjects[i]
           d2 == [addObject(d, n, "Part::Cut") EXCEPT
                    ![n].Base = base,
                    ![n].Tool = o,
                    ![n].Label = <<"Cut ", ToString(i - 1), ", ">> \o baseLabel]
       IN  makeCutsLoopToolIsOriginal(d2, n + 1, iObjects, i + 1, n, baseLabel,
                                      Append(cuts, n))

\* One pass of the loop of makeCuts for iObjects[i], i >= 2: the copy is
\* object n, the cut is object n + 1.
RECURSIVE makeCutsLoop(_, _, _, _, _, _, _)
makeCutsLoop(d, n, iObjects, i, base, baseLabel, cuts) ==
  IF i > Len(iObjects) THEN [doc |-> d, nextId |-> n, cuts |-> cuts]
  ELSE LET o == iObjects[i]
           d1 == [copyObject(d, n, o) EXCEPT ![n].Label = <<"copy, ">> \o d[o].Label]
           d2 == [addObject(d1, n + 1, "Part::Cut") EXCEPT
                    ![n + 1].Base = base,
                    ![n + 1].Tool = n,
                    ![n + 1].Label = <<"Cut ", ToString(i - 1), ", ">> \o baseLabel]
       IN  makeCutsLoop(d2, n + 2, iObjects, i + 1, n + 1, baseLabel,
                        Append(cuts, n + 1))

\* with a single object no cut is bound when the last label is set
makeCutsRaises(iObjects) == Len(iObjects) < 2

\* defined for iObjects of two or more objects
makeCuts(d, n, iObjects) ==
  LET baseLabel == d[iObjects[1]].Label
      r == makeCutsLoop(d, n, iObjects, 2, iObjects[1], baseLabel, <<>>)
      cut == r.cuts[Len(r.cuts)]
  IN  [r EXCEPT !.doc = [r.doc EXCEPT ![cut].Label = <<"Cut, ">> \o baseLabel]]

magicCutBody(d, n, s) ==
  IF Len(s) < 2 THEN Raise(d, n, 1)
  ELSE LET r == makeCuts(d, n, s)
       IN  Done(r.doc, r.nextId, 1, r.cuts)

\* ------------------------------------------------------------------------
\* Initial documents and selections
\* ------------------------------------------------------------------------
Placement1 == [Base |-> <<10, 20, 30>>, Rotation |-> 1]
Placement2 == [Base |-> <<1, 2, 3>>, Rotation |-> 0]

Box(L, W, H) ==
  [NewObject("Part::Box") EXCEPT !.Length = L, !.Width = W, !.Height = H,
                                 !.Placement = Placement1]
Sketch(sx, sy, label, ao) ==
  [NewObject("Sketcher::SketchObject") EXCEPT !.SizeX = sx, !.SizeY = sy,
                                              !.Support = label,
                                              !.Placement = Placement1,
                                              !.AttachmentOffset = ao]
Pad(len, sketch) ==
  [NewObject("PartDesign::Pad") EXCEPT !.Length = len, !.Profile = sketch]
Cylinder(r2, h) ==
  [NewObject("Part::Cylinder") EXCEPT !.RadiusHalves = r2, !.Height = h,
                                      !.Placement = Placement1]
\* an object with Base_Length, Base_Width and Base_Height properties
Custom(L, W, H) ==
  [NewObject("App::FeaturePython") EXCEPT !.Length = L, !.Width = W, !.Height = H,
                                          !.Placement = Placement1]
Plain == [NewObject("App::Part") EXCEPT !.Placement = Placement1]

PairSizes == {<<600, 300, 18>>, <<300, 18, 18>>}
SketchSizes == {<<600, 300>>, <<300, 600>>, <<300, 300>>, <<0, 0>>}
SupportLabels == {"XY_Plane", "XZ_Plane", "YZ_Plane", "Cube"}

InitDocs ==
  {(1 :> Box(l, w, h)) : l \in SizeSet, w \in SizeSet, h \in SizeSet}
  \cup {(1 :> Box(a[1], a[2], a[3])) @@ (2 :> Box(b[1], b[2], b[3])) :
          a \in PairSizes, b \in PairSizes}
  \cup {(1 :> Sketch(0, 0, <<>>, ao)) : ao \in {Placement0, Placement1, Placement2}}
  \cup {(1 :> Cylinder(8, 25)), (1 :> Custom(600, 300, 18)), (1 :> Plain)}
  \cup {(1 :> Sketch(z[1], z[2], Chars(l), Placement2)) @@ (2 :> Pad(18, 1)) :
          z \in SketchSizes, l \in SupportLabels}
  \cup {(1 :> Box(300, 18, 18)) @@ (2 :> Box(600, 300, 18))
          @@ (3 :> Sketch(0, 0, <<>>, Placement0))}

\* the host labels every object of the document
Labelled(d) == [i \in DOMAIN d |-> [d[i] EXCEPT !.Label = <<"Object", ToString(i)>>]]

\* the selections of distinct objects of the document, in any order
Selections(d) ==
  {<<>>} \cup {<<i>> : i \in DOMAIN d}
         \cup {q \in (DOMAIN d) \X (DOMAIN d) : q[1] # q[2]}
         \cup {q \in (DOMAIN d) \X (DOMAIN d) \X (DOMAIN d) :
                 q[1] # q[2] /\ q[1] # q[3] /\ q[2] # q[3]}

NoOp ==
  [op |-> "none", arg |-> "", sel |-> <<>>, target |-> 0, pos |-> <<0, 0, 0>>,
   rot |-> 0, raised |-> FALSE, propagated |-> FALSE, shown |-> 0,
   selReads |-> 0, ret |-> <<>>,
   view |-> BaseView, shape |-> <<>>, key |-> <<0, 0, 0, 0, 0, 0>>, index |-> 0]

Init ==
  /\ doc \in {Labelled(d) : d \in InitDocs}
  /\ nextId = Cardinality(DOMAIN doc) + 1
  /\ sel \in Selections(doc)
  /\ faces \in (IF sel = <<>> THEN {FALSE} ELSE BOOLEAN)
  /\ pre = doc
  /\ last = NoOp
  /\ ops = 0

\* ------------------------------------------------------------------------
\* Public operations: try the body, on any exception show the help pop-up
\* ------------------------------------------------------------------------
\* the host drops removed objects from the selection
Remaining(s, d) ==
  LET present(i) == i \in DOMAIN d
  IN  SelectSeq(s, present)

\* shows: the number of showInfo calls the except block makes
Finish(op, arg, out, shows) ==
  /\ doc' = out.doc
  /\ nextId' = out.nextId
  /\ sel' = Remaining(sel, out.doc)
  /\ faces' = (faces /\ Remaining(sel, out.doc) # <<>>)
  /\ pre' = doc
  /\ last' = [NoOp EXCEPT !.op = op, !.arg = arg, !.sel = sel,
                          !.raised = out.raised,
                          !.shown = IF out.raised THEN shows ELSE 0,
                          !.selReads = out.reads, !.ret = out.ret]
  /\ ops' = ops + 1

panelDefault ==
  /\ ops < MaxOps
  /\ \E iType \in Directions \cup {BadType} :
       Finish("panelDefault", iType, panelDefaultBody(doc, nextId, iType), 1)

panelCopy ==
  /\ ops < MaxOps
  /\ \E iType \in Directions \cup {BadType} :
       Finish("panelCopy", iType, panelCopyBody(doc, nextId, sel, iType), 1)

panelMove ==
  /\ ops < MaxOps
  /\ \E iType \in MoveTypes, view \in Views :
       Finish("panelMove", iType, panelMoveBody(doc, nextId, sel, iType, view), 1)

panelMove2Face ==
  /\ ops < MaxOps
  /\ \E plane \in {"XY", "XZ", "YZ", ""}, v1 \in VertexSet :
       Finish("panelMove2Face", "", panelMove2FaceBody(doc, nextId, sel, faces, plane, v1), 1)

panelResize ==
  /\ ops < MaxOps
  /\ \E iType \in ResizeTypes :
       Finish("panelResize", iType, panelResizeBody(doc, nextId, sel, iType), 1)

panelBetween ==
  /\ ops < MaxOps
  /\ \E iType \in Directions, v1 \in VertexSet, v2 \in VertexSet :
       Finish("panelBetween", iType,
              panelBetweenBody(doc, nextId, sel, faces, iType, v1, v2), 1)

\* the except block of panelSide shows the pop-up for "1" .. "4" only
panelSideShows(iType) == IF iType \in SideTypes THEN 1 ELSE 0

panelSide ==
  /\ ops < MaxOps
  /\ \E iType \in SideTypes \cup {BadType}, v \in VertexSet :
       Finish("panelSide", iType, panelSideBody(doc, nextId, sel, faces, iType, v),
              panelSideShows(iType))

panel2pad ==
  /\ ops < MaxOps
  /\ Finish("panel2pad", "", panel2padBody(doc, nextId, sel), 1)

panel2link ==
  /\ ops < MaxOps
  /\ Finish("panel2link", "", panel2linkBody(doc, nextId, sel), 1)

panel2profile ==
  /\ ops < MaxOps
  /\ Finish("panel2profile", "", panel2profileBody(doc, nextId, sel), 1)

\* magicCut clears the selection when makeCuts has returned
magicCut ==
  /\ ops < MaxOps
  /\ LET out == magicCutBody(doc, nextId, sel)
     IN  /\ doc' = out.doc
         /\ nextId' = out.nextId
         /\ sel' = IF out.raised THEN sel ELSE <<>>
         /\ faces' = (faces /\ out.raised)
         /\ last' = [NoOp EXCEPT !.op = "magicCut", !.sel = sel,
                                 !.raised = out.raised,
                                 !.shown = IF out.raised THEN 1 ELSE 0,
                                 !.selReads = out.reads, !.ret = out.ret]
  /\ pre' = doc
  /\ ops' = ops + 1

\* ------------------------------------------------------------------------
\* Internal placement functions, called by a tool on an object
\* ------------------------------------------------------------------------
setPlacementCall ==
  /\ ops < MaxOps
  /\ \E id \in DOMAIN doc, p \in PosSet, r \in Rots :
       /\ ~placementRaises(doc, id)
       /\ doc' = setPlacement(doc, id, p[1], p[2], p[3], r)
       /\ last' = [NoOp EXCEPT !.op = "setPlacement", !.target = id,
                               !.pos = p, !.rot = r, !.sel = sel]
  /\ pre' = doc
  /\ ops' = ops + 1
  /\ UNCHANGED <<nextId, sel, faces>>

resetPlacementCall ==
  /\ ops < MaxOps
  /\ \E id \in DOMAIN doc :
       /\ ~placementRaises(doc, id)
       /\ doc' = resetPlacement(doc, id)
       /\ last' = [NoOp EXCEPT !.op = "resetPlacement", !.target = id, !.sel = sel]
  /\ pre' = doc
  /\ ops' = ops + 1
  /\ UNCHANGED <<nextId, sel, faces>>

Next ==
  \/ panelDefault
  \/ panelCopy
  \/ panelMove
  \/ panelMove2Face
  \/ panelResize
  \/ panelBetween
  \/ panelSide
  \/ panel2pad
  \/ panel2link
  \/ panel2profile
  \/ magicCut
  \/ setPlacementCall
  \/ resetPlacementCall

Spec == Init /\ [][Next]_vars

\* ------------------------------------------------------------------------
\* Internal functions called by a tool on values of its own
\* ------------------------------------------------------------------------
\* the lists of edges (faces) a shape may have
Shapes == UNION {[1..k -> BoundBoxes] : k \in 1..MaxShape}

\* the tool records what it asked and what it got
Called(op, changes) ==
  /\ last' = [changes EXCEPT !.op = op]
  /\ pre' = doc
  /\ ops' = ops + 1
  /\ UNCHANGED <<doc, nextId, sel, faces>>

getModelRotationCall ==
  /\ ops < MaxOps
  /\ \E view \in ViewSet, v \in Vectors :
       Called("getModelRotation",
              [NoOp EXCEPT !.view = view, !.pos = v,
                           !.ret = getModelRotation(view, v[1], v[2], v[3])])

getEdgeIndexByKeyCall ==
  /\ ops < MaxOps
  /\ \E shape \in Shapes, key \in BoundBoxes :
       Called("getEdgeIndexByKey",
              [NoOp EXCEPT !.shape = shape, !.key = key,
                           !.index = getEdgeIndexByKey(shape, key)])

getFaceIndexByKeyCall ==
  /\ ops < MaxOps
  /\ \E shape \in Shapes, key \in BoundBoxes :
       Called("getFaceIndexByKey",
              [NoOp EXCEPT !.shape = shape, !.key = key,
                           !.index = getFaceIndexByKey(shape, key)])

InitInternal ==
  /\ doc = Labelled(1 :> Box(600, 300, 18))
  /\ nextId = 2
  /\ sel = <<>>
  /\ faces = FALSE
  /\ pre = doc
  /\ last = NoOp
  /\ ops = 0

NextInternal ==
  \/ getModelRotationCall
  \/ getEdgeIndexByKeyCall
  \/ getFaceIndexByKeyCall

SpecInternal == InitInternal /\ [][NextInternal]_vars

PublicOps ==
  {"panelDefault", "panelCopy", "panelMove", "panelMove2Face", "panelResize",
   "panelBetween", "panelSide", "panel2pad", "panel2link", "panel2profile",
   "magicCut"}

\* ------------------------------------------------------------------------
\* Properties
\* ------------------------------------------------------------------------
Range(q) == {q[i] : i \in 1..Len(q)}
NewIds == (DOMAIN doc) \ (DOMAIN pre)
RemovedIds == (DOMAIN pre) \ (DOMAIN doc)

\* C1: whenever the body of a public operation raises, the exception does
\* not reach the caller and the help pop-up is shown exactly once.
C1_FailureShowsHelpOnce ==
  (last.op \in PublicOps /\ last.raised) =>
     (~last.propagated /\ last.shown = 1)

SelectionReads(op) ==
  CASE op = "panelDefault" -> {0}
    [] op \in {"panelCopy", "panelMove", "panelResize", "panel2pad", "panel2link",
               "panel2profile", "magicCut"} -> {1}
    [] op = "panelSide" -> {1, 2}
    [] op = "panelBetween" -> {1, 2, 3}
    [] op = "panelMove2Face" -> {1, 3}

C4_PanelDefaultDirection ==
  (last.op = "panelDefault" /\ last.arg \in Directions) =>
     /\ ~last.raised
     /\ Cardinality(NewIds) = 1
     /\ RemovedIds = {}
     /\ \A id \in DOMAIN pre : doc[id] = pre[id]
     /\ \A id \in NewIds :
          /\ isDerivedFrom(doc[id], "Part::Box")
          /\ sort(<<doc[id].Length, doc[id].Width, doc[id].Height>>) = <<18, 300, 600>>
          /\ getDirection(doc, doc[id]) = last.arg

C4_Witness ==
  /\ last.op = "panelDefault"
  /\ last.arg = "ZY"
  /\ \E id \in NewIds : doc[id].Height = 600 /\ getDirection(doc, doc[id]) = "ZY"

\* the three sizes are pairwise different
Distinct3(z) == z[1] # z[2] /\ z[1] # z[3] /\ z[2] # z[3]

\* the object panelCopy took the sizes from, and the panel it added
CopySource == pre[getReference(pre, last.sel[1])]
CopiedPanel == doc[CHOOSE id \in NewIds : TRUE]

\* C5 as stated: sizesToCubePanel(obj, iType), as used by panelCopy, gives
\* a permutation of the three sizes of obj, and a Cube with these values
\* has direction iType, also when sizes are equal.
C5_CopyHasDirectionAlways ==
  (last.op = "panelCopy" /\ ~last.raised) =>
     /\ Cardinality(NewIds) = 1
     /\ isDerivedFrom(CopiedPanel, "Part::Box")
     /\ sort(getSizes(doc, CopiedPanel)) = sort(getSizes(pre, CopySource))
     /\ getDirection(doc, CopiedPanel) = last.arg

\* C5 amended: the values are a permutation of the three sizes of obj for
\* every source object and every iType; a Cube with these values has
\* direction iType when the three sizes are pairwise different.
C5_CopyHasDirectionWhenDistinct ==
  (last.op = "panelCopy" /\ ~last.raised) =>
     /\ Cardinality(NewIds) = 1
     /\ isDerivedFrom(CopiedPanel, "Part::Box")
     /\ sort(getSizes(doc, CopiedPanel)) = sort(getSizes(pre, CopySource))
     /\ (Distinct3(getSizes(pre, CopySource)) =>
           getDirection(doc, CopiedPanel) = last.arg)

\* a Pad with three different sizes copied into direction ZX
C5_Witness ==
  /\ last.op = "panelCopy"
  /\ ~last.raised
  /\ last.arg = "ZX"
  /\ isDerivedFrom(CopySource, "PartDesign::Pad")
  /\ Distinct3(getSizes(pre, CopySource))
  /\ getDirection(doc, CopiedPanel) = "ZX"

Boxes(d) == {id \in DOMAIN d : isDerivedFrom(d[id], "Part::Box")}
AxisSize(o, axis) ==
  CASE axis = "X" -> o.Length
    [] axis = "Y" -> o.Width
    [] axis = "Z" -> o.Height
DirectionAxes(direction) ==
  CASE direction = "XY" -> <<"X", "Y">>
    [] direction = "YX" -> <<"Y", "X">>
    [] direction = "XZ" -> <<"X", "Z">>
    [] direction = "ZX" -> <<"Z", "X">>
    [] direction = "YZ" -> <<"Y", "Z">>
    [] direction = "ZY" -> <<"Z", "Y">>
\* axis t is the thickness: its size is strictly the smallest
StrictlyThinnest(o, t) ==
  \A a \in {"X", "Y", "Z"} \ {t} : AxisSize(o, t) < AxisSize(o, a)

\* C6: getDirection of a Part::Box with positive sizes is one of the six
\* directions; when one size is strictly the smallest the direction names
\* the two other axes, the one with the longer size first.
C6_DirectionOfEveryBox ==
  \A id \in Boxes(doc) :
    LET o == doc[id]
        dir == getDirection(doc, o)
    IN  (o.Length > 0 /\ o.Width > 0 /\ o.Height > 0) =>
          /\ dir \in Directions
          /\ \A t \in {"X", "Y", "Z"} :
               StrictlyThinnest(o, t) =>
                 /\ Range(DirectionAxes(dir)) = {"X", "Y", "Z"} \ {t}
                 /\ AxisSize(o, DirectionAxes(dir)[1]) >= AxisSize(o, DirectionAxes(dir)[2])

\* panel2pad asked for the direction of a Cube with three equal sizes and
\* of one with two equal longest sizes
C6_Witness ==
  /\ last.op = "panel2pad"
  /\ ~last.raised
  /\ \E id \in Boxes(pre) :
       /\ id = last.sel[1]
       /\ pre[id].Length = pre[id].Width
       /\ pre[id].Height <= pre[id].Width

\* where the host keeps the position of an object: the AttachmentOffset of
\* the sketch for a Pad, the Placement for every other object
ObjPlacement(d, id) ==
  IF isDerivedFrom(d[id], "PartDesign::Pad")
  THEN d[d[id].Profile].AttachmentOffset
  ELSE d[id].Placement

\* C7: panelMove that completes moves the selected object by a vector with
\* exactly one non-zero component, of the size of the smallest of the
\* object's sizes (100 for unrecognized objects), and keeps the rotation.
C7_MoveByThickness ==
  (last.op = "panelMove" /\ ~last.raised) =>
     LET g == getReference(pre, last.sel[1])
         a == ObjPlacement(pre, g)
         b == ObjPlacement(doc, g)
         step == Min3(getSizes(pre, pre[g]))
         moved == {k \in 1..3 : b.Base[k] # a.Base[k]}
     IN  /\ Cardinality(moved) = 1
         /\ \A k \in moved : abs(b.Base[k] - a.Base[k]) = step
         /\ b.Rotation = a.Rotation

BoxSizes(o) == <<o.Length, o.Width, o.Height>>
\* exactly one size, one that was equal to ref, grew by step
OnlyOneGrew(a, b, ref, step) ==
  \E k \in 1..3 :
    /\ a[k] = ref
    /\ b[k] = a[k] + step
    /\ \A j \in (1..3) \ {k} : b[j] = a[j]

\* C8: panelResize("1") on a Cube makes the longest of Length, Width and
\* Height bigger by the thickness and leaves the other two as they were;
\* panelResize("3") does so with the short side.
C8_ResizeOneSide ==
  (last.op = "panelResize" /\ last.arg \in {"1", "3"} /\ ~last.raised
     /\ isDerivedFrom(pre[last.sel[1]], "Part::Box")) =>
     LET a == BoxSizes(pre[last.sel[1]])
         b == BoxSizes(doc[last.sel[1]])
         sorted == sort(a)
     IN  OnlyOneGrew(a, b, IF last.arg = "1" THEN sorted[3] ELSE sorted[2], sorted[1])

\* C9: panel2pad on a Cube removes the Cube, returns [part, body, sketch,
\* pad], and the Pad has the sizes of the Cube (as a multiset) and its
\* direction.
C9_PadKeepsSizesAndDirection ==
  (last.op = "panel2pad" /\ ~last.raised
     /\ isDerivedFrom(pre[last.sel[1]], "Part::Box")) =>
     LET cube == pre[last.sel[1]]
         r == last.ret
     IN  /\ last.sel[1] \notin DOMAIN doc
         /\ Len(r) = 4
         /\ Range(r) = NewIds
         /\ isDerivedFrom(doc[r[1]], "App::Part")
         /\ isDerivedFrom(doc[r[2]], "PartDesign::Body")
         /\ isDerivedFrom(doc[r[3]], "Sketcher::SketchObject")
         /\ isDerivedFrom(doc[r[4]], "PartDesign::Pad")
         /\ sort(getSizes(doc, doc[r[4]])) = sort(BoxSizes(cube))
         /\ getDirection(doc, doc[r[4]]) = getDirection(pre, cube)

\* a Cube 18 x 18 x 300 (direction ZX by the rule for two equal sizes)
\* was replaced
C9_Witness ==
  /\ last.op = "panel2pad"
  /\ ~last.raised
  /\ isDerivedFrom(pre[last.sel[1]], "Part::Box")
  /\ pre[last.sel[1]].Length = pre[last.sel[1]].Width
  /\ pre[last.sel[1]].Height > pre[last.sel[1]].Width
  /\ getDirection(doc, doc[last.ret[4]]) = "ZX"

\* C10: getPlacement after setPlacement(obj, x, y, z, r) gives x, y, z, r,
\* and after resetPlacement(obj) gives 0, 0, 0 and the identity rotation.
C10_PlacementRoundTrip ==
  /\ last.op = "setPlacement" =>
       getPlacement(doc, last.target)
         = <<last.pos[1], last.pos[2], last.pos[3], last.rot>>
  /\ last.op = "resetPlacement" =>
       getPlacement(doc, last.target) = <<0, 0, 0, 0>>

\* an object but for its label
Unlabelled(o) == [o EXCEPT !.Label = <<>>]

\* C11: magicCut on n >= 2 selected objects returns n - 1 new Part::Cut
\* objects in selection order; the first cut has the first selected object
\* as Base, every later cut the previous cut; the Tool of the k-th cut is a
\* new object with the properties of the (k+1)-th selected object; the
\* selected objects stay in the document unchanged and no cut uses the
\* second or a later selected object; the last cut is labelled
\* "Cut, <label of the first selected object>".
C11_CutChain ==
  (last.op = "magicCut" /\ ~last.raised) =>
     LET s == last.sel
         r == last.ret
         n == Len(s)
     IN  /\ n >= 2
         /\ Len(r) = n - 1
         /\ Cardinality(NewIds) = 2 * (n - 1)
         /\ \A k \in 1..(n - 1) :
              /\ r[k] \in NewIds
              /\ isDerivedFrom(doc[r[k]], "Part::Cut")
              /\ doc[r[k]].Base = (IF k = 1 THEN s[1] ELSE r[k - 1])
              /\ doc[r[k]].Tool \in NewIds \ Range(r)
              /\ Unlabelled(doc[doc[r[k]].Tool]) = Unlabelled(pre[s[k + 1]])
              /\ \A j \in 2..n : doc[r[k]].Base # s[j] /\ doc[r[k]].Tool # s[j]
         /\ \A id \in DOMAIN pre : id \in DOMAIN doc /\ doc[id] = pre[id]
         /\ doc[r[n - 1]].Label = <<"Cut, ">> \o pre[s[1]].Label

\* three objects were selected: the second cut is based on the first cut
C11_Witness ==
  /\ last.op = "magicCut"
  /\ ~last.raised
  /\ Len(last.ret) = 2
  /\ doc[last.ret[2]].Base = last.ret[1]
  /\ doc[last.ret[1]].Base = last.sel[1]
  /\ doc[last.ret[2]].Label = <<"Cut, ", "Object", ToString(last.sel[1])>>

\* C12: panel2link on n >= 2 selected objects returns n - 1 new App::Link
\* objects in selection order, each linked to the first selected object
\* and placed at the position and rotation of the object it replaces;
\* every replaced object is removed and the first object stays as it was.
C12_LinksReplaceObjects ==
  (last.op = "panel2link" /\ ~last.raised) =>
     LET s == last.sel
         r == last.ret
         n == Len(s)
     IN  /\ n >= 2
         /\ Len(r) = n - 1
         /\ s[1] \in DOMAIN doc
         /\ doc[s[1]] = pre[s[1]]
         /\ \A k \in 1..(n - 1) :
              /\ r[k] \in NewIds
              /\ isDerivedFrom(doc[r[k]], "App::Link")
              /\ doc[r[k]].Linked = s[1]
              /\ doc[r[k]].Placement = ObjPlacement(pre, s[k + 1])
              /\ s[k + 1] \notin DOMAIN doc

\* the first element of the shape whose rounded bounding box is that of
\* the key, 0 when there is none
FirstSameRounded(shape, key) ==
  LET same == {i \in 1..Len(shape) :
                 \A c \in 1..6 : round(shape[i][c]) = round(key[c])}
  IN  IF same = {} THEN 0 ELSE CHOOSE i \in same : \A j \in same : i <= j

\* C13: getEdgeIndexByKey and getFaceIndexByKey, given the bounding box of
\* an element of the shape, return the 1-based index of the first element
\* whose bounding box rounded to integers equals the rounded key; they
\* return -1 only when no element has the same rounded bounding box.
C13_IndexByRoundedKey ==
  (last.op \in {"getEdgeIndexByKey", "getFaceIndexByKey"}) =>
     LET first == FirstSameRounded(last.shape, last.key)
     IN  /\ first > 0 => last.index = first
         /\ first = 0 => last.index = -1

\* the 23 views the branches test for and the view of the base state
Orientations ==
  {view \in ViewSet : \E i \in 1..Len(RotationTable) :
                         BranchMatches(RotationTable[i], view)}
    \cup {BaseView}

\* the signed indexes that take the vector v to the result r
TransformOf(v, r) ==
  [i \in 1..3 |-> CHOOSE k \in {-3, -2, -1, 1, 2, 3} : Pick(k, v) = r[i]]

\* a signed permutation of the axes with determinant +1
IsProperRotation(t) ==
  LET p == <<abs(t[1]), abs(t[2]), abs(t[3])>>
      even == p \in {<<1, 2, 3>>, <<2, 3, 1>>, <<3, 1, 2>>}
      negatives == Cardinality({i \in 1..3 : t[i] < 0})
  IN  /\ {p[1], p[2], p[3]} = {1, 2, 3}
      /\ even <=> (negatives % 2 = 0)

\* C14: no view satisfies two branches of getModelRotation and the view of
\* the base state satisfies none; the branches and the base state are 24
\* orientations; in each of them getModelRotation applies a proper
\* rotation, different from the one of every other orientation.
C14_RotationTable ==
  last.op = "getModelRotation" =>
     LET hits == {i \in 1..Len(RotationTable) :
                    BranchMatches(RotationTable[i], last.view)}
         t == TransformOf(last.pos, last.ret)
     IN  /\ Cardinality(hits) <= 1
         /\ last.view = BaseView => hits = {}
         /\ Len(RotationTable) = 23
         /\ Cardinality(Orientations) = 24
         /\ last.view \in Orientations =>
              /\ IsProperRotation(t)
              /\ \A other \in Orientations \ {last.view} :
                   getModelRotation(other, last.pos[1], last.pos[2], last.pos[3])
                     # last.ret

\* the last branch (Y down, X rotate 3) was taken
C14_Witness ==
  /\ last.op = "getModelRotation"
  /\ last.view = [x |-> 1, y |-> 1, z |-> 1, py |-> 1, pz |-> 1]
  /\ last.pos = <<5, 7, 11>>
  /\ last.ret = <<7, -11, -5>>

\* the profiles panel2profile has made
NewProfiles == {id \in NewIds : isDerivedFrom(doc[id], "PartDesign::Thickness")}

\* the object was replaced: it is gone and a new profile stands on a new Pad
\* of its sizes
ReplacedByProfile(id) ==
  /\ id \notin DOMAIN doc
  /\ \E p \in NewProfiles :
       /\ doc[p].Base \in NewIds
       /\ isDerivedFrom(doc[doc[p].Base], "PartDesign::Pad")
       /\ sort(getSizes(doc, doc[doc[p].Base])) = sort(getSizes(pre, pre[id]))

\* the object cannot be made a profile: its two smallest sizes differ, or
\* its sizes or its direction cannot be read
NoProfileOf(d, id) ==
  \/ getSizesRaises(d, d[id])
  \/ sort(getSizes(d, d[id]))[1] # sort(getSizes(d, d[id]))[2]
  \/ makePadRaisesEarly(d, id)
  \/ makePadRaisesLate(d, id)

====
